---- MODULE Spec2Model ----
(***************************************************************************)
(* ECS-Library: the entity table, the per-component sparse sets and the   *)
(* entity groups of class ECS (ECS.h / ECS.cpp), in the grouped            *)
(* configuration IMPL == 3 with sparse sets REFAC == 2.                    *)
(*                                                                         *)
(* EntityID is an unsigned integer exactly wide enough to index            *)
(* MAX_ENTITIES slots (uint16_t / 65536 in the header).  The model keeps   *)
(* that relation at a small scale: EntityID arithmetic is modulo           *)
(* MaxEntities and EntityID(-1) is MaxEntities - 1.                        *)
(***************************************************************************)
EXTENDS Integers, Sequences, FiniteSets, TLC

\* Scaled MAX_ENTITIES: number of entity slots = number of EntityID values.
MaxEntities == 6
\* The component kinds registered by initComponents<Position, Translation>().
NumComps == 2
\* #define MAX_COMPONENTS 8
MAX_COMPONENTS == 8
\* The most entities start-up creates before the run proper.
MaxStartUp == 3
\* The longest run explored, in calls made after start-up.
MaxCalls == 4
\* The same two bounds for the runs in which components are attached,
\* detached and written.
MaxCompStartUp == 2
MaxCompCalls == 3
\* The same two bounds for the runs in which systems also write component
\* data (the writes are not counted as calls).
MaxDataStartUp == 1
MaxDataCalls == 2
\* The calls made after a start-up that may fill the whole table.
MaxCapacityCalls == 1
\* The most engine instances one process constructs.
MaxEngines == 4
\* The calls made on an engine of the compaction-only configuration.
MaxCompactCalls == 4

EntityID == 0 .. (MaxEntities - 1)
Comps == 0 .. (NumComps - 1)
CompMask == SUBSET Comps

\* Conversion of an int to EntityID (unsigned wrap-around).
ToEntityID(x) == (x + MaxEntities) % MaxEntities
\* EntityID(-1), the sentinel createEntity returns on failure.
InvalidID == ToEntityID(-1)

\* Contents of one component element: never written since the pool was
\* allocated (new byte[] leaves it indeterminate), as T() leaves it, or
\* changed by a system through getEntitysComponent.
Garbage == "garbage"
DefaultValue == "default"
Dirty == "dirty"
Values == {Garbage, DefaultValue, Dirty}

VARIABLES
  entities,                       \* array<EntityDesignation>: the compMask of each slot
  noOfEntities,                   \* EntityID noOfEntities
  componentPools,                 \* per kind, the element stored at each dense slot
  componentSparseSets,            \* per kind, entity index -> dense slot
  componentAvailabilityBitsets,   \* per kind, the set of dense slots in use
  sortingGroups,                  \* vector<SortingGroup*>
  entityGroups,                   \* vector<EntityGroup*>
  fault,                          \* the process has been terminated (assert, crash)
  undefined,                      \* some call has read outside an object and gone on
  last,                           \* the call that produced this state, with its result
  calls,                          \* number of calls made after start-up
  unsetComponentID,               \* CompID unsetComponentID, one per process
  compIDs,                        \* per kind, getCompID<T>()'s static output
  engines,                        \* per ECS instance of the process, the kind of each pool
  placing                         \* where performFullRefactor's placement loops stand

vars == <<entities, noOfEntities, componentPools, componentSparseSets,
          componentAvailabilityBitsets, sortingGroups, entityGroups,
          fault, undefined, last, calls, unsetComponentID, compIDs, engines,
          placing>>

\* The object the member functions work on, with what a call returns and
\* what createEntity did on the way: the number of transferEntity calls of
\* its eviction, whether a write landed on a slot holding a live entity,
\* whether the eviction came back to a slot it was already evicting, and
\* whether getEndIndex() was evaluated on a group of no entities.
This ==
  [entities |-> entities, noOfEntities |-> noOfEntities,
   componentPools |-> componentPools,
   componentSparseSets |-> componentSparseSets,
   componentAvailabilityBitsets |-> componentAvailabilityBitsets,
   sortingGroups |-> sortingGroups, entityGroups |-> entityGroups,
   fault |-> fault, undefined |-> undefined, ret |-> InvalidID,
   transfers |-> 0, overwrote |-> FALSE, endless |-> FALSE,
   emptyEnd |-> FALSE]

Min(S) == CHOOSE x \in S : \A y \in S : x <= y

\* The process dies inside a call: nothing of the call is observable.
Crash(s) == [s EXCEPT !.fault = TRUE]

(***************************************************************************)
(* Component kinds of the process                                          *)
(***************************************************************************)
\* The component structs of the program.
Kinds == {"Position", "Translation"}
\* CompID is uint8_t.
ToCompID(x) == x % 256
\* getCompID<T>() has not run yet: its static output is not initialised.
NotYet == -1

\* getCompID<T>(): the first call for a kind takes the process-wide counter's
\* value and increments the counter; every later call returns the same id.
\* r holds the counter, the ids and the instance's pools.
getCompID(r, T) ==
  IF r.compIDs[T] # NotYet THEN r
  ELSE [r EXCEPT !.compIDs[T] = r.unsetComponentID,
                 !.unsetComponentID = ToCompID(@ + 1)]

\* createComp<T>(): the instance gets a pool (with its sparse set and its
\* availability bitset) at the end of its vectors, then getCompID<T>().
createComp(r, T) ==
  getCompID([r EXCEPT !.componentPools = Append(@, T)], T)

\* initComponents<T...>(): createComp for each kind of the list, in order.
RECURSIVE initComponents(_, _)
initComponents(r, Ts) ==
  IF Ts = <<>> THEN r
  ELSE initComponents(createComp(r, Head(Ts)), Tail(Ts))

\* The lists initComponents can be given: some of the kinds, in any order.
RegistrationLists ==
  {Ts \in UNION {[1 .. n -> Kinds] : n \in 1 .. Cardinality(Kinds)} :
     \A i, j \in DOMAIN Ts : i # j => Ts[i] # Ts[j]}

(***************************************************************************)
(* ecs::EntityGroup                                                        *)
(***************************************************************************)
getEndIndex(g) == ToEntityID(g.startIndex + g.noOfEntities - 1)
getNextIndex(g) == ToEntityID(g.startIndex + g.noOfEntities)
\* s after a call of g.getEndIndex()
endIndexTaken(s, g) == [s EXCEPT !.emptyEnd = @ \/ g.noOfEntities = 0]

(***************************************************************************)
(* Components                                                              *)
(***************************************************************************)
getEntitysComponent(s, T, entityID) ==
  s.componentPools[T][s.componentSparseSets[T][entityID]]

\* assignComp with its scan run from the top of the bitset: the entity gets
\* the highest clear dense slot.
assignComp_ScanFromTop(s, T, entityID) ==
  LET free == EntityID \ s.componentAvailabilityBitsets[T]
      found == free # {}
      top == CHOOSE x \in free : \A y \in free : y <= x
      bits == IF found
              THEN [s.componentAvailabilityBitsets EXCEPT ![T] = @ \cup {top}]
              ELSE s.componentAvailabilityBitsets
      sparse == IF found
                THEN [s.componentSparseSets EXCEPT ![T][entityID] = top]
                ELSE s.componentSparseSets
  IN [s EXCEPT !.entities[entityID] = @ \cup {T},
               !.componentAvailabilityBitsets = bits,
               !.componentSparseSets = sparse,
               !.componentPools[T][sparse[T][entityID]] = DefaultValue]

\* assignComp without its last statement (the placement new T() on the
\* element the entity has just been given).
assignComp_NoInit(s, T, entityID) ==
  LET free == EntityID \ s.componentAvailabilityBitsets[T]
      found == free # {}
      bits == IF found
              THEN [s.componentAvailabilityBitsets EXCEPT ![T] = @ \cup {Min(free)}]
              ELSE s.componentAvailabilityBitsets
      sparse == IF found
                THEN [s.componentSparseSets EXCEPT ![T][entityID] = Min(free)]
                ELSE s.componentSparseSets
  IN [s EXCEPT !.entities[entityID] = @ \cup {T},
               !.componentAvailabilityBitsets = bits,
               !.componentSparseSets = sparse]

assignComp(s, T, entityID) ==
  LET free == EntityID \ s.componentAvailabilityBitsets[T]
      found == free # {}
      bits == IF found
              THEN [s.componentAvailabilityBitsets EXCEPT ![T] = @ \cup {Min(free)}]
              ELSE s.componentAvailabilityBitsets
      sparse == IF found
                THEN [s.componentSparseSets EXCEPT ![T][entityID] = Min(free)]
                ELSE s.componentSparseSets
  IN [s EXCEPT !.entities[entityID] = @ \cup {T},
               !.componentAvailabilityBitsets = bits,
               !.componentSparseSets = sparse,
               !.componentPools[T][sparse[T][entityID]] = DefaultValue]

RECURSIVE assignComps(_, _, _)
assignComps(s, Ts, ID) ==
  IF Ts = {} THEN s
  ELSE assignComps(assignComp(s, Min(Ts), ID), Ts \ {Min(Ts)}, ID)

unassignComp(s, T, ID) == [s EXCEPT !.entities[ID] = @ \ {T}]

RECURSIVE transferComponentsLoop(_, _, _, _)
transferComponentsLoop(s, from, to, i) ==
  IF i >= MAX_COMPONENTS THEN s
  ELSE IF NumComps >= i THEN s
  ELSE IF i \notin s.entities[from] THEN transferComponentsLoop(s, from, to, i + 1)
  ELSE transferComponentsLoop(
         [s EXCEPT !.componentSparseSets[i][to] = s.componentSparseSets[i][from]],
         from, to, i + 1)

transferComponents(s, from, to) ==
  IF from = to THEN s ELSE transferComponentsLoop(s, from, to, 0)

RECURSIVE switchComponentsLoop(_, _, _, _)
switchComponentsLoop(s, a, b, i) ==
  IF i >= MAX_COMPONENTS THEN s
  ELSE IF NumComps >= i THEN s
  ELSE switchComponentsLoop(
         [s EXCEPT !.componentSparseSets[i][a] = s.componentSparseSets[i][b],
                   !.componentSparseSets[i][b] = s.componentSparseSets[i][a]],
         a, b, i + 1)

switchComponents(s, a, b) ==
  IF a = b THEN s ELSE switchComponentsLoop(s, a, b, 0)

(***************************************************************************)
(* Entities                                                                *)
(***************************************************************************)
switchEntities(s, a, b) ==
  IF a = b THEN s
  ELSE LET t == switchComponents(s, a, b)
       IN [t EXCEPT !.entities[a] = t.entities[b], !.entities[b] = t.entities[a]]

transferEntity(s, from, to) ==
  IF from = to THEN s
  ELSE LET t == transferComponents(s, from, to)
       IN [t EXCEPT !.entities[to] = t.entities[from], !.entities[from] = {}]

init_CreateEntity(s, Ts) ==
  LET newID == s.noOfEntities
      t == [s EXCEPT !.noOfEntities = ToEntityID(s.noOfEntities + 1)]
  IN [assignComps(t, Ts, newID) EXCEPT !.ret = newID]

\* findGroup: the position in entityGroups of the first group with this
\* mask, 0 for the null pointer.
findGroup(s, mask) ==
  LET hits == {i \in 1 .. Len(s.entityGroups) : s.entityGroups[i].compMask = mask}
  IN IF hits = {} THEN 0 ELSE Min(hits)

\* entityGroups.back() of an empty vector reads outside the vector: the
\* group it yields is arbitrary, or the read kills the process.
previousGroups(s) ==
  IF s.entityGroups # <<>>
  THEN {s.entityGroups[Len(s.entityGroups)]}
  ELSE [startIndex : EntityID, noOfEntities : {1}, compMask : {{}}]

createNewGroup(s, compMask) ==
  (IF s.entityGroups = <<>> THEN {Crash(s)} ELSE {}) \cup
  { LET entityGroup == [startIndex |-> getEndIndex(previousGroup),
                        noOfEntities |-> 1, compMask |-> compMask]
        newID == entityGroup.startIndex
        t == [endIndexTaken(s, previousGroup) EXCEPT
                !.entityGroups = Append(@, entityGroup),
                !.undefined = @ \/ (s.entityGroups = <<>>)]
    IN [assignComps(t, compMask, newID) EXCEPT
          !.ret = newID, !.overwrote = @ \/ t.entities[newID] # {}]
    : previousGroup \in previousGroups(s) }

\* entities[newIndex].compMask != 0 with an int newIndex: newIndex ==
\* MAX_ENTITIES is one past the array, and what is read there is arbitrary.
occupied(s, newIndex) ==
  IF newIndex \in EntityID THEN {s.entities[newIndex] # {}} ELSE BOOLEAN

OutOfRange(s, newIndex) ==
  [s EXCEPT !.undefined = @ \/ (newIndex \notin EntityID)]

\* transferEntity(entityToMove, newIndex) as the eviction issues it.
evict(s, entityToMove, newIndex) ==
  [transferEntity(s, entityToMove, newIndex) EXCEPT
     !.transfers = @ + 1, !.overwrote = @ \/ s.entities[newIndex] # {}]

\* The lambda without its recursion: the entity goes behind its group
\* whether or not another entity is there.
moveEntityToEndOfGroup_NoCascade(s, entityToMove, depth) ==
  IF s.entities[entityToMove] = {} THEN {s}
  ELSE LET group == findGroup(s, s.entities[entityToMove])
       IN IF group = 0 THEN {Crash(s)}
          ELSE LET newIndex == getEndIndex(s.entityGroups[group]) + 1
               IN { evict(OutOfRange(s, newIndex), entityToMove, ToEntityID(newIndex)) }

\* The recursive lambda.  No state changes on the way down, so a descent
\* deeper than the number of slots has met a slot twice and never ends
\* (stack exhaustion).
RECURSIVE moveEntityToEndOfGroup(_, _, _)
moveEntityToEndOfGroup(s, entityToMove, depth) ==
  IF depth > MaxEntities THEN {[Crash(s) EXCEPT !.endless = TRUE]}
  ELSE IF s.entities[entityToMove] = {} THEN {s}
  ELSE LET group == findGroup(s, s.entities[entityToMove])
       IN IF group = 0 THEN {Crash(s)}
          ELSE LET newIndex == getEndIndex(s.entityGroups[group]) + 1
                   r == OutOfRange(endIndexTaken(s, s.entityGroups[group]), newIndex)
               IN UNION {
                    IF occ
                    THEN { IF m.fault THEN m
                           ELSE evict(m, entityToMove, ToEntityID(newIndex))
                           : m \in moveEntityToEndOfGroup(r, ToEntityID(newIndex), depth + 1) }
                    ELSE { evict(r, entityToMove, ToEntityID(newIndex)) }
                    : occ \in occupied(s, newIndex) }

insertEntityAtEndOfGroup(s, entityGroup, compMask) ==
  LET newIndex == getNextIndex(s.entityGroups[entityGroup])
      vacated == IF s.entities[newIndex] # {}
                 THEN moveEntityToEndOfGroup(
                        endIndexTaken(s, s.entityGroups[entityGroup]),
                        ToEntityID(getEndIndex(s.entityGroups[entityGroup]) + 1), 1)
                 ELSE {s}
  IN { IF m.fault THEN m
       ELSE [assignComps(m, compMask, newIndex) EXCEPT
               !.entityGroups[entityGroup].noOfEntities = ToEntityID(@ + 1),
               !.noOfEntities = ToEntityID(@ + 1),
               !.ret = newIndex,
               !.overwrote = @ \/ m.entities[newIndex] # {}]
       : m \in vacated }

\* createEntity<T...>() in the grouped configuration: the set of states
\* the call can end in, with the returned id in ret.
createEntity(s, Ts) ==
  IF s.noOfEntities = InvalidID THEN {[s EXCEPT !.ret = InvalidID]}
  ELSE LET entityGroup == findGroup(s, Ts)
       IN { IF t.fault THEN [Crash(s) EXCEPT !.endless = t.endless] ELSE t
            : t \in IF entityGroup = 0
                    THEN createNewGroup(s, Ts)
                    ELSE insertEntityAtEndOfGroup(s, entityGroup, Ts) }

RECURSIVE finalizeDestructionLoop(_, _, _)
finalizeDestructionLoop(s, index, i) ==
  IF i >= MAX_COMPONENTS THEN s
  ELSE IF i \notin s.entities[index] THEN finalizeDestructionLoop(s, index, i + 1)
  ELSE finalizeDestructionLoop(
         [s EXCEPT !.componentAvailabilityBitsets[i] =
                      @ \ {s.componentSparseSets[i][index]}],
         index, i + 1)

finalizeDestruction(s, index) ==
  [finalizeDestructionLoop(s, index, 0) EXCEPT !.entities[index] = {}]

switchDeadEntity(s, dead, alive) ==
  switchComponents([s EXCEPT !.entities[dead] = s.entities[alive]], alive, dead)

\* destroyEntity without its first statement (the return on an entity that
\* is dead already).
destroyEntity_NoDeadTest(s, entityID) ==
  LET group == findGroup(s, s.entities[entityID])
  IN IF group = 0 THEN Crash(s)
     ELSE LET aliveIndex == getEndIndex(s.entityGroups[group])
              t == [s EXCEPT !.noOfEntities = ToEntityID(@ - 1)]
              u == finalizeDestruction(switchDeadEntity(t, entityID, aliveIndex),
                                       aliveIndex)
          IN [u EXCEPT !.entityGroups[group].noOfEntities = ToEntityID(@ - 1)]

destroyEntity(s, entityID) ==
  IF s.entities[entityID] = {} THEN s
  ELSE LET group == findGroup(s, s.entities[entityID])
       IN IF group = 0 THEN Crash(s)
          ELSE LET aliveIndex == getEndIndex(s.entityGroups[group])
                   t == [endIndexTaken(s, s.entityGroups[group]) EXCEPT
                           !.noOfEntities = ToEntityID(@ - 1)]
                   u == finalizeDestruction(switchDeadEntity(t, entityID, aliveIndex),
                                            aliveIndex)
               IN [u EXCEPT !.entityGroups[group].noOfEntities = ToEntityID(@ - 1)]

(***************************************************************************)
(* The compaction-only configuration (IMPL 2, the one ECS.h selects)       *)
(***************************************************************************)
\* createEntity<T...>(): the capacity test, then the next index of the
\* compacted prefix.
createEntity_IMPL2(s, Ts) ==
  IF s.noOfEntities = InvalidID THEN [s EXCEPT !.ret = InvalidID]
  ELSE LET newID == s.noOfEntities
           t == [s EXCEPT !.noOfEntities = ToEntityID(s.noOfEntities + 1)]
       IN [assignComps(t, Ts, newID) EXCEPT !.ret = newID]

\* destroyEntity(entityID): the entity at the end of the prefix takes the
\* dead entity's place, then the entity at the end is finalized.
destroyEntity_IMPL2(s, entityID) ==
  IF s.entities[entityID] = {} THEN s
  ELSE LET t == [s EXCEPT !.noOfEntities = ToEntityID(@ - 1)]
       IN finalizeDestruction(switchDeadEntity(t, entityID, t.noOfEntities),
                              t.noOfEntities)

(***************************************************************************)
(* performFullRefactor                                                     *)
(***************************************************************************)
\* The scan of entities [0, noOfEntities) into sorting groups, entity i next.
RECURSIVE generateSortingGroups(_, _, _)
generateSortingGroups(s, groups, i) ==
  IF i >= s.noOfEntities THEN groups
  ELSE LET hits == {k \in 1 .. Len(groups) : groups[k].compMask = s.entities[i]}
       IN IF hits # {}
          THEN generateSortingGroups(
                 s, [groups EXCEPT ![Min(hits)].indices = Append(@, i)], i + 1)
          ELSE generateSortingGroups(
                 s, Append(groups, [indices |-> <<i>>, compMask |-> s.entities[i]]), i + 1)

\* The comparison turned round: smaller groups first.
sortingLambda_Ascending(a, b) == Len(a.indices) < Len(b.indices)

sortingLambda(a, b) == Len(a.indices) > Len(b.indices)

\* std::sort(begin, end, sortingLambda): some arrangement of the groups in
\* which no group is followed by one the lambda puts before it.  The order
\* of groups of equal size is whatever the library's algorithm leaves.
stdSort(groups) ==
  LET n == Len(groups)
      perms == {p \in [1 .. n -> 1 .. n] : \A x, y \in 1 .. n : x # y => p[x] # p[y]}
  IN { [x \in 1 .. n |-> groups[p[x]]] :
       p \in {q \in perms : \A x, y \in 1 .. n :
                 x < y => ~sortingLambda(groups[q[y]], groups[q[x]])} }

\* The j loop's pass with its two parts in the other order: the entities
\* are switched first and the displaced entity is looked for afterwards.
placeEntity_SwitchFirst(s, i, startingIndex, j) ==
  LET target == startingIndex + (j - 1)
      u == switchEntities(s, ToEntityID(target), s.sortingGroups[i].indices[j])
      ks == {k \in 1 .. Len(u.sortingGroups) :
               /\ u.entities[target] = u.sortingGroups[k].compMask
               /\ \E w \in 1 .. Len(u.sortingGroups[k].indices) :
                     u.sortingGroups[k].indices[w] = target}
      k == Min(ks)
      w == Min({x \in 1 .. Len(u.sortingGroups[k].indices) :
                  u.sortingGroups[k].indices[x] = target})
  IN IF ks = {} THEN u
     ELSE [u EXCEPT !.sortingGroups[k].indices[w] = s.sortingGroups[i].indices[j]]

\* The j loop's pass without the search that records where the displaced
\* entity has gone (the k / w loops before switchEntities).
placeEntity_NoBookkeeping(s, i, startingIndex, j) ==
  switchEntities(s, ToEntityID(startingIndex + (j - 1)), s.sortingGroups[i].indices[j])

\* One pass of the j loop: entity indices[j] of sorting group i goes to
\* startingIndex + j (j counts from 1 here, from 0 in the code).
placeEntity(s, i, startingIndex, j) ==
  LET target == startingIndex + (j - 1)
      ks == {k \in 1 .. Len(s.sortingGroups) :
               /\ s.entities[target] = s.sortingGroups[k].compMask
               /\ \E w \in 1 .. Len(s.sortingGroups[k].indices) :
                     s.sortingGroups[k].indices[w] = target}
      k == Min(ks)
      w == Min({x \in 1 .. Len(s.sortingGroups[k].indices) :
                  s.sortingGroups[k].indices[x] = target})
      t == IF ks = {} THEN s
           ELSE [s EXCEPT !.sortingGroups[k].indices[w] = s.sortingGroups[i].indices[j]]
  IN switchEntities(t, ToEntityID(target), t.sortingGroups[i].indices[j])

RECURSIVE placeEntities(_, _, _, _)
placeEntities(s, i, startingIndex, j) ==
  IF j > Len(s.sortingGroups[i].indices) THEN s
  ELSE placeEntities(placeEntity(s, i, startingIndex, j), i, startingIndex, j + 1)

\* The i loop: one entity group per sorting group (i counts from 1).
RECURSIVE organizeEntities(_, _)
organizeEntities(s, i) ==
  IF i > Len(s.sortingGroups) THEN s
  ELSE LET startingIndex ==
             IF i # 1
             THEN ToEntityID(s.entityGroups[i - 1].startIndex
                             + s.entityGroups[i - 1].noOfEntities)
             ELSE 0
           entityGroup == [startIndex |-> startingIndex,
                           noOfEntities |-> ToEntityID(Len(s.sortingGroups[i].indices)),
                           compMask |-> s.sortingGroups[i].compMask]
           t == [s EXCEPT !.entityGroups = Append(@, entityGroup)]
       IN organizeEntities(placeEntities(t, i, startingIndex, 1), i + 1)

\* The head of the i loop's body: the entity group of sorting group i is
\* created where the group before it ends (i counts from 1).
openEntityGroup(s, i) ==
  LET startingIndex ==
        IF i # 1
        THEN ToEntityID(s.entityGroups[i - 1].startIndex
                        + s.entityGroups[i - 1].noOfEntities)
        ELSE 0
  IN [s EXCEPT !.entityGroups =
         Append(@, [startIndex |-> startingIndex,
                    noOfEntities |-> ToEntityID(Len(s.sortingGroups[i].indices)),
                    compMask |-> s.sortingGroups[i].compMask])]

\* The loops are not running.
NotPlacing == [i |-> 0, j |-> 0, displaced |-> FALSE]

\* assert(entityCompMask != 0) ends the process in a build that keeps
\* assertions and is nothing in a build with NDEBUG.
performFullRefactor(s) ==
  LET cleared == [s EXCEPT !.sortingGroups = <<>>, !.entityGroups = <<>>]
      dead == \E i \in EntityID : i < s.noOfEntities /\ s.entities[i] = {}
      generated == generateSortingGroups(cleared, <<>>, 0)
  IN (IF dead THEN {Crash(s)} ELSE {}) \cup
     { organizeEntities([cleared EXCEPT !.sortingGroups = sorted], 1)
       : sorted \in stdSort(generated) }

(***************************************************************************)
(* getEntitiesWithComponents                                               *)
(***************************************************************************)
\* for (int i = group->startIndex; i < group->getNextIndex(); i++)
groupIndices(g) ==
  [x \in 1 .. (IF getNextIndex(g) > g.startIndex
               THEN getNextIndex(g) - g.startIndex ELSE 0) |-> g.startIndex + x - 1]

RECURSIVE getEntitiesWithComponentsLoop(_, _, _)
getEntitiesWithComponentsLoop(s, compMask, g) ==
  IF g > Len(s.entityGroups) THEN <<>>
  ELSE groupIndices(s.entityGroups[g])
         \o getEntitiesWithComponentsLoop(s, compMask, g + 1)

getEntitiesWithComponents(s, compMask) == getEntitiesWithComponentsLoop(s, compMask, 1)

entityHasComponents(s, index, compMask) ==
  (s.entities[index] \cap compMask) = compMask

(***************************************************************************)
(* Initial state: ECS() followed by initComponents<...>().                 *)
(***************************************************************************)
Init ==
  /\ entities = [e \in EntityID |-> {}]
  /\ noOfEntities = 0
  /\ componentPools = [c \in Comps |-> [i \in EntityID |-> Garbage]]
  /\ componentSparseSets = [c \in Comps |-> [e \in EntityID |-> 0]]
  /\ componentAvailabilityBitsets = [c \in Comps |-> {}]
  /\ sortingGroups = <<>>
  /\ entityGroups = <<>>
  /\ fault = FALSE
  /\ undefined = FALSE
  /\ last = [op |-> "ECS"]
  /\ calls = 0
  /\ unsetComponentID = NumComps
  /\ compIDs = [K \in Kinds |-> IF K = "Position" THEN 0 ELSE 1]
  /\ engines = <<(<<"Position", "Translation">>)>>
  /\ placing = NotPlacing

\* The process runs and every read so far was inside its object: what a
\* program does after a read outside an object is not followed further.
Running == ~fault /\ ~undefined

Live(e) == entities[e] # {}
\* The groups have been built (or nothing needs one yet).
StartUpOver == entityGroups # <<>> \/ \A e \in EntityID : ~Live(e)

\* The state a call leaves behind.
Commit(t, call) ==
  /\ entities' = t.entities
  /\ noOfEntities' = t.noOfEntities
  /\ componentPools' = t.componentPools
  /\ componentSparseSets' = t.componentSparseSets
  /\ componentAvailabilityBitsets' = t.componentAvailabilityBitsets
  /\ sortingGroups' = t.sortingGroups
  /\ entityGroups' = t.entityGroups
  /\ fault' = t.fault
  /\ undefined' = t.undefined
  /\ last' = call
  /\ UNCHANGED <<unsetComponentID, compIDs, engines, placing>>

\* The state a step inside a call leaves behind.
CommitPlacement(t, call) ==
  /\ entities' = t.entities
  /\ noOfEntities' = t.noOfEntities
  /\ componentPools' = t.componentPools
  /\ componentSparseSets' = t.componentSparseSets
  /\ componentAvailabilityBitsets' = t.componentAvailabilityBitsets
  /\ sortingGroups' = t.sortingGroups
  /\ entityGroups' = t.entityGroups
  /\ fault' = t.fault
  /\ undefined' = t.undefined
  /\ last' = call
  /\ UNCHANGED <<unsetComponentID, compIDs, engines>>

\* The kinds of Ts whose element at the dense slot entity id ends up with
\* held a system's data before the call.
StaleSlots(t, Ts, id) ==
  {T \in Ts : componentPools[T][t.componentSparseSets[T][id]] = Dirty}

\* init_CreateEntity<T...>() during start-up
StartUpCreate(most) ==
  /\ Running
  /\ calls = 0
  /\ entityGroups = <<>>
  /\ noOfEntities < most
  /\ \E Ts \in CompMask \ {{}} :
       LET t == init_CreateEntity(This, Ts)
       IN Commit(t, [op |-> "init_CreateEntity", mask |-> Ts, ret |-> t.ret])
  /\ UNCHANGED calls

\* performFullRefactor(); the one that ends start-up is not counted
RefactorWithin(most) ==
  /\ Running
  /\ calls < most
  /\ \E t \in performFullRefactor(This) :
       Commit(t, [op |-> "performFullRefactor", moved |-> t.entities # entities])
  /\ calls' = IF entityGroups = <<>> /\ calls = 0 THEN 0 ELSE calls + 1

\* createEntity<T...>()
CreateWithin(most) ==
  /\ Running
  /\ calls < most
  /\ \E Ts \in CompMask \ {{}} :
       \E t \in createEntity(This, Ts) :
          Commit(t, [op |-> "createEntity", mask |-> Ts, ret |-> t.ret,
                     stale |-> IF t.fault \/ t.ret = InvalidID THEN {}
                               ELSE StaleSlots(t, Ts, t.ret),
                     inserted |-> findGroup(This, Ts) # 0,
                     transfers |-> t.transfers,
                     overwrote |-> t.overwrote,
                     endless |-> t.endless,
                     emptyEnd |-> t.emptyEnd])
  /\ calls' = calls + 1

\* destroyEntity(id)
DestroyWithin(most) ==
  /\ Running
  /\ calls < most
  /\ \E id \in EntityID :
       LET t == destroyEntity(This, id)
       IN Commit(t, [op |-> "destroyEntity", id |-> id, wasLive |-> Live(id),
                     emptyEnd |-> t.emptyEnd])
  /\ calls' = calls + 1

\* destroyEntity(id) on a live entity
DestroyLiveWithin(most) ==
  /\ Running
  /\ calls < most
  /\ \E id \in EntityID :
       /\ Live(id)
       /\ LET t == destroyEntity(This, id)
          IN Commit(t, [op |-> "destroyEntity", id |-> id, wasLive |-> TRUE,
                        emptyEnd |-> t.emptyEnd])
  /\ calls' = calls + 1

\* assignComp<T>(id) on a live entity; again says whether the entity may
\* hold T already
AssignWithin(most, again) ==
  /\ Running
  /\ calls < most
  /\ \E T \in Comps : \E id \in EntityID :
       /\ entities[id] # {}
       /\ again \/ T \notin entities[id]
       /\ LET t == assignComp(This, T, id)
          IN Commit(t, [op |-> "assignComp", comp |-> T, id |-> id,
                        stale |-> StaleSlots(t, {T}, id)])
  /\ calls' = calls + 1

\* unassignComp<T>(id) on a live entity; again says whether the entity may
\* lack T already
UnassignWithin(most, again) ==
  /\ Running
  /\ calls < most
  /\ \E T \in Comps : \E id \in EntityID :
       /\ entities[id] # {}
       /\ again \/ T \in entities[id]
       /\ Commit(unassignComp(This, T, id), [op |-> "unassignComp", comp |-> T, id |-> id])
  /\ calls' = calls + 1

\* A system changes the component it got from getEntitysComponent<T>(id);
\* the entity holds T.
WriteWithin(most) ==
  /\ Running
  /\ calls < most
  /\ \E T \in Comps : \E id \in EntityID :
       /\ T \in entities[id]
       /\ Commit([This EXCEPT !.componentPools[T][componentSparseSets[T][id]] = Dirty],
                 [op |-> "write", comp |-> T, id |-> id])
  /\ calls' = calls + 1

\* init_CreateEntity<T...>() at any time, short of wrapping noOfEntities
AppendEntity ==
  /\ Running
  /\ noOfEntities # InvalidID
  /\ \E Ts \in CompMask \ {{}} :
       LET t == init_CreateEntity(This, Ts)
       IN Commit(t, [op |-> "init_CreateEntity", mask |-> Ts, ret |-> t.ret])
  /\ UNCHANGED calls

\* performFullRefactor() at any time
Refactor ==
  /\ Running
  /\ \E t \in performFullRefactor(This) :
       Commit(t, [op |-> "performFullRefactor", moved |-> t.entities # entities])
  /\ UNCHANGED calls

\* The grouped configuration: start-up (init_CreateEntity, then
\* performFullRefactor), then createEntity, destroyEntity and
\* performFullRefactor in any order.
InitCreateEntity == StartUpCreate(MaxStartUp)
PerformFullRefactor == RefactorWithin(MaxCalls)
CreateEntity == CreateWithin(MaxCalls)
DestroyEntity == DestroyWithin(MaxCalls)

Next ==
  \/ InitCreateEntity
  \/ CreateEntity
  \/ DestroyEntity
  \/ PerformFullRefactor

Spec == Init /\ [][Next]_vars

\* The same with components attached, detached and written by systems.
CompsStartUp == StartUpCreate(MaxCompStartUp)
CompsRefactor == RefactorWithin(MaxCompCalls)
CompsCreate == CreateWithin(MaxCompCalls)
CompsDestroy == DestroyWithin(MaxCompCalls)
AssignComp == AssignWithin(MaxCompCalls, TRUE)
UnassignComp == UnassignWithin(MaxCompCalls, TRUE)
WriteComponent == WriteWithin(MaxCompCalls)

NextComps ==
  \/ CompsStartUp
  \/ CompsRefactor
  \/ CompsCreate
  \/ CompsDestroy
  \/ AssignComp
  \/ UnassignComp
  \/ WriteComponent

SpecComps == Init /\ [][NextComps]_vars

\* Start-up, then assignComp of kinds the entity lacks and unassignComp of
\* kinds it holds, on live entities.
Attach == AssignWithin(MaxCompCalls, FALSE)
Detach == UnassignWithin(MaxCompCalls, FALSE)

NextAttach ==
  \/ CompsStartUp
  \/ Attach
  \/ Detach

SpecAttach == Init /\ [][NextAttach]_vars

\* Start-up, then createEntity, destroyEntity and assignComp in any order
\* while systems write the components of the entities that hold them.
DataStartUp == StartUpCreate(MaxDataStartUp)
DataRefactor == entityGroups = <<>> /\ RefactorWithin(MaxDataCalls)
DataCreate == CreateWithin(MaxDataCalls)
DataDestroy == (\E e \in EntityID : Live(e)) /\ DestroyLiveWithin(MaxDataCalls)
DataAssign == AssignWithin(MaxDataCalls, TRUE)
DataWrite ==
  /\ Running
  /\ StartUpOver
  /\ \E T \in Comps : \E id \in EntityID :
       /\ T \in entities[id]
       /\ Commit([This EXCEPT !.componentPools[T][componentSparseSets[T][id]] = Dirty],
                 [op |-> "write"])
  /\ UNCHANGED calls

NextData ==
  \/ DataStartUp
  \/ DataRefactor
  \/ DataCreate
  \/ DataDestroy
  \/ DataAssign
  \/ DataWrite

SpecData == Init /\ [][NextData]_vars

\* Tables filled by init_CreateEntity in any order of signatures, and
\* rebuilt by performFullRefactor at any time.
NextRefactor ==
  \/ AppendEntity
  \/ Refactor

SpecRefactor == Init /\ [][NextRefactor]_vars

\* init_CreateEntity<T...>() during start-up, as long as a slot is free: the
\* function has no capacity test, and the call that fills the last slot
\* wraps noOfEntities to 0.
FillTable ==
  /\ Running
  /\ calls = 0
  /\ entityGroups = <<>>
  /\ \E e \in EntityID : ~Live(e)
  /\ \E Ts \in CompMask \ {{}} :
       LET t == init_CreateEntity(This, Ts)
       IN Commit(t, [op |-> "init_CreateEntity", mask |-> Ts, ret |-> t.ret])
  /\ UNCHANGED calls

\* A start-up that may use every slot, then performFullRefactor and
\* createEntity.
CapacityRefactor == RefactorWithin(MaxCapacityCalls)
CapacityCreate == CreateWithin(MaxCapacityCalls)

NextCapacity ==
  \/ FillTable
  \/ CapacityRefactor
  \/ CapacityCreate

SpecCapacity == Init /\ [][NextCapacity]_vars

\* Start-up, performFullRefactor, then assignComp of kinds the entity lacks
\* and unassignComp of kinds it holds, on the grouped entities.
NextGrouped ==
  \/ CompsStartUp
  \/ CompsRefactor
  \/ Attach
  \/ Detach

SpecGrouped == Init /\ [][NextGrouped]_vars

\* Start-up, then createEntity and destroyEntity of any index, dead ones
\* included.
DestroyAny == DestroyWithin(MaxDataCalls)

NextDestroy ==
  \/ DataStartUp
  \/ DataRefactor
  \/ DataCreate
  \/ DestroyAny

SpecDestroy == Init /\ [][NextDestroy]_vars

\* switchEntities(a, b) on any two indices
SwitchEntities ==
  /\ Running
  /\ calls < MaxCompCalls
  /\ \E a, b \in EntityID :
       Commit(switchEntities(This, a, b), [op |-> "switchEntities", a |-> a, b |-> b])
  /\ calls' = calls + 1

\* transferEntity(from, to) on any two indices
TransferEntity ==
  /\ Running
  /\ calls < MaxCompCalls
  /\ \E from, to \in EntityID :
       Commit(transferEntity(This, from, to),
              [op |-> "transferEntity", from |-> from, to |-> to])
  /\ calls' = calls + 1

\* The move primitives of the entity table, applied to tables that start-up
\* has filled.
NextMove ==
  \/ CompsStartUp
  \/ SwitchEntities
  \/ TransferEntity

SpecMove == Init /\ [][NextMove]_vars

\* init_CreateEntity between two runs of performFullRefactor
PlacementAppend == placing = NotPlacing /\ AppendEntity

\* performFullRefactor up to its placement loops: the vectors are cleared,
\* the entities scanned, the sorting groups sorted and the first entity
\* group created.
BeginRefactor ==
  /\ Running
  /\ placing = NotPlacing
  /\ LET cleared == [This EXCEPT !.sortingGroups = <<>>, !.entityGroups = <<>>]
         dead == \E i \in EntityID : i < noOfEntities /\ entities[i] = {}
         generated == generateSortingGroups(cleared, <<>>, 0)
     IN \E asserted \in (IF dead THEN {TRUE} ELSE {}) \cup {FALSE} :
          IF asserted
          THEN Commit(Crash(This), [op |-> "performFullRefactor", moved |-> FALSE])
          ELSE \E sorted \in stdSort(generated) :
                 LET t == [cleared EXCEPT !.sortingGroups = sorted]
                 IN IF sorted = <<>>
                    THEN Commit(t, [op |-> "performFullRefactor", moved |-> FALSE])
                    ELSE /\ CommitPlacement(openEntityGroup(t, 1), [op |-> "placement"])
                         /\ placing' = [i |-> 1, j |-> 1, displaced |-> FALSE]
  /\ UNCHANGED calls

\* One pass of the j loop, followed by the head of the next pass of the i
\* loop when the j loop has ended, or by the function's return.
PlaceStep ==
  /\ Running
  /\ placing # NotPlacing
  /\ LET i == placing.i
         j == placing.j
         t == placeEntity(This, i, entityGroups[i].startIndex, j)
         displaced == placing.displaced \/ t.entities # entities
     IN IF j < Len(sortingGroups[i].indices)
        THEN /\ CommitPlacement(t, [op |-> "placement"])
             /\ placing' = [i |-> i, j |-> j + 1, displaced |-> displaced]
        ELSE IF i < Len(sortingGroups)
        THEN /\ CommitPlacement(openEntityGroup(t, i + 1), [op |-> "placement"])
             /\ placing' = [i |-> i + 1, j |-> 1, displaced |-> displaced]
        ELSE /\ CommitPlacement(t, [op |-> "performFullRefactor", moved |-> displaced])
             /\ placing' = NotPlacing
  /\ UNCHANGED calls

\* performFullRefactor taken one placement at a time, on tables filled by
\* init_CreateEntity.
NextPlacement ==
  \/ PlacementAppend
  \/ BeginRefactor
  \/ PlaceStep

SpecPlacement == Init /\ [][NextPlacement]_vars

\* Start-up, then createEntity calls on the groups performFullRefactor
\* built.
CascadeRefactor == entityGroups = <<>> /\ RefactorWithin(MaxDataCalls)

NextCascade ==
  \/ InitCreateEntity
  \/ CascadeRefactor
  \/ DataCreate

SpecCascade == Init /\ [][NextCascade]_vars

\* The process before main() has constructed an engine.
InitProcess ==
  /\ entities = [e \in EntityID |-> {}]
  /\ noOfEntities = 0
  /\ componentPools = [c \in Comps |-> [i \in EntityID |-> Garbage]]
  /\ componentSparseSets = [c \in Comps |-> [e \in EntityID |-> 0]]
  /\ componentAvailabilityBitsets = [c \in Comps |-> {}]
  /\ sortingGroups = <<>>
  /\ entityGroups = <<>>
  /\ fault = FALSE
  /\ undefined = FALSE
  /\ last = [op |-> "main"]
  /\ calls = 0
  /\ unsetComponentID = 0
  /\ compIDs = [K \in Kinds |-> NotYet]
  /\ engines = <<>>
  /\ placing = NotPlacing

\* ECS ecs; ecs.initComponents<T...>(); for one more instance of the process
NewEngine ==
  /\ Len(engines) < MaxEngines
  /\ \E Ts \in RegistrationLists :
       LET r == initComponents([unsetComponentID |-> unsetComponentID,
                                compIDs |-> compIDs,
                                componentPools |-> <<>>], Ts)
       IN /\ unsetComponentID' = r.unsetComponentID
          /\ compIDs' = r.compIDs
          /\ engines' = Append(engines, r.componentPools)
          /\ last' = [op |-> "initComponents", kinds |-> Ts]
  /\ UNCHANGED <<entities, noOfEntities, componentPools, componentSparseSets,
                 componentAvailabilityBitsets, sortingGroups, entityGroups,
                 fault, undefined, calls, placing>>

NextRegistry ==
  \/ NewEngine

SpecRegistry == InitProcess /\ [][NextRegistry]_vars

\* The compaction-only configuration: createEntity with any kind list (the
\* empty one included, as initEntities calls it), destroyEntity of any
\* index, assignComp and unassignComp on the indices createEntity has
\* handed out.
CompactCreate ==
  /\ Running
  /\ calls < MaxCompactCalls
  /\ \E Ts \in CompMask :
       LET t == createEntity_IMPL2(This, Ts)
       IN Commit(t, [op |-> "createEntity", mask |-> Ts, ret |-> t.ret])
  /\ calls' = calls + 1

CompactDestroy ==
  /\ Running
  /\ calls < MaxCompactCalls
  /\ \E id \in EntityID :
       Commit(destroyEntity_IMPL2(This, id),
              [op |-> "destroyEntity", id |-> id, wasLive |-> Live(id)])
  /\ calls' = calls + 1

CompactAssign ==
  /\ Running
  /\ calls < MaxCompactCalls
  /\ \E T \in Comps : \E id \in EntityID :
       /\ id < noOfEntities
       /\ Commit(assignComp(This, T, id), [op |-> "assignComp", comp |-> T, id |-> id])
  /\ calls' = calls + 1

CompactUnassign ==
  /\ Running
  /\ calls < MaxCompactCalls
  /\ \E T \in Comps : \E id \in EntityID :
       /\ id < noOfEntities
       /\ T \in entities[id]
       /\ Commit(unassignComp(This, T, id), [op |-> "unassignComp", comp |-> T, id |-> id])
  /\ calls' = calls + 1

NextCompact ==
  \/ CompactCreate
  \/ CompactDestroy
  \/ CompactAssign
  \/ CompactUnassign

SpecCompact == Init /\ [][NextCompact]_vars

\* Dense slots: start-up, then assignComp on live entities (holding the
\* kind already or not) and destroyEntity of live entities.
SlotsRefactor == entityGroups = <<>> /\ RefactorWithin(MaxCompCalls)
SlotsAssign == AssignWithin(MaxCompCalls, TRUE)
SlotsDestroy == DestroyLiveWithin(MaxCompCalls)

NextSlots ==
  \/ CompsStartUp
  \/ SlotsRefactor
  \/ SlotsAssign
  \/ SlotsDestroy

SpecSlots == Init /\ [][NextSlots]_vars

(***************************************************************************)
(* Vocabulary of the properties                                            *)
(***************************************************************************)
Range(f) == {f[x] : x \in DOMAIN f}
GroupRange(g) == {i \in 0 .. (2 * MaxEntities) :
                    g.startIndex <= i /\ i < g.startIndex + g.noOfEntities}
GroupIds == 1 .. Len(entityGroups)

GroupsBuilt == Running /\ StartUpOver
AfterCreateOrDestroy ==
  GroupsBuilt /\ last.op \in {"createEntity", "destroyEntity"}

GroupsDisjoint ==
  \A g, h \in GroupIds :
     g # h => GroupRange(entityGroups[g]) \cap GroupRange(entityGroups[h]) = {}
GroupsCoverLivePrefix ==
  UNION {GroupRange(entityGroups[g]) : g \in GroupIds} = 0 .. (noOfEntities - 1)
GroupsHomogeneous ==
  \A g \in GroupIds : \A i \in GroupRange(entityGroups[g]) :
     i \in EntityID /\ entities[i] = entityGroups[g].compMask
GroupPartition == GroupsDisjoint /\ GroupsCoverLivePrefix /\ GroupsHomogeneous

Compacted ==
  \A e \in EntityID : Live(e) <=> e < noOfEntities

SparseSetsSound ==
  \A K \in Comps :
     /\ \A e \in EntityID :
          K \in entities[e] => componentSparseSets[K][e] \in componentAvailabilityBitsets[K]
     /\ \A e, f \in EntityID :
          (e # f /\ K \in entities[e] /\ K \in entities[f])
             => componentSparseSets[K][e] # componentSparseSets[K][f]

(***************************************************************************)
(* C1..C10                                                                 *)
(***************************************************************************)
\* C1: after every createEntity / destroyEntity call made on a table whose
\* groups performFullRefactor built (every read inside its object, no
\* assertion failed), the entity groups are pairwise disjoint, cover
\* exactly [0, noOfEntities) and each index of a group's range holds an
\* entity whose compMask is the group's.
C1_GroupPartitionAfterEveryCall == AfterCreateOrDestroy => GroupPartition

\* C2: for every requested mask S and entity index e,
\* getEntitiesWithComponents(S) contains e iff e is live and
\* (compMask(e) & S) == S.
C2_QueryReturnsExactlyTheMatches ==
  GroupsBuilt =>
    \A S \in CompMask : \A e \in EntityID :
       (e \in Range(getEntitiesWithComponents(This, S)))
          <=> (Live(e) /\ entityHasComponents(This, e, S))

\* C3: for every kind K and every live entity e holding K the sparse-set
\* entry of e names a dense slot whose availability bit is set, and no two
\* live entities holding K name the same slot.
C3_SparseSetsSound == Running => SparseSetsSound

\* C4: after any sequence of createEntity (non-empty kind lists) and
\* destroyEntity calls the live entities are compacted to the front: index
\* e holds a non-zero compMask iff e < noOfEntities.
C4_LiveEntitiesCompacted == AfterCreateOrDestroy => Compacted

C6_RefactorIdempotent ==
  [][(/\ last.op = "performFullRefactor"
      /\ last'.op = "performFullRefactor"
      /\ ~fault')
     => (/\ entityGroups' = entityGroups
         /\ entities' = entities
         /\ componentSparseSets' = componentSparseSets)]_vars

Holders(K) == {e \in EntityID : K \in entities[e]}

\* C7: for every kind K, after any sequence of assignComp<K> /
\* unassignComp<K> calls on live entities, the number of set availability
\* bits of K is at most the number of live entities holding K.
C7_NoDenseSlotLeak ==
  Running =>
    \A K \in Comps :
       Cardinality(componentAvailabilityBitsets[K]) <= Cardinality(Holders(K))

\* C8: right after assignComp<K>(e), called directly or by createEntity,
\* getEntitysComponent<K>(e) yields K's default value, whatever the slot
\* held before.
C8_AttachThenGetIsDefault ==
  /\ (Running /\ last.op = "assignComp")
        => getEntitysComponent(This, last.comp, last.id) = DefaultValue
  /\ (Running /\ last.op = "createEntity" /\ last.ret # InvalidID)
        => \A T \in last.mask : getEntitysComponent(This, T, last.ret) = DefaultValue

\* C8 witness: createEntity has given the new entity a dense slot that
\* held a system's data of a destroyed entity.
C8_Witness ==
  /\ Running
  /\ last.op = "createEntity"
  /\ last.ret # InvalidID
  /\ last.stale # {}

\* The table before a call is as the design wants it.
WellFormed == GroupsBuilt /\ GroupPartition /\ SparseSetsSound /\ Compacted

\* C9: destroyEntity(id) on a live id of a well-formed table lowers
\* noOfEntities and the group's count by one, clears exactly the
\* availability bits of the slots the destroyed entity held, and every
\* survivor keeps its compMask and dense slots (the group's former last
\* member at index id, the others where they were).
C9_DestroyRemovesExactlyThatEntity ==
  [][(/\ WellFormed
      /\ last'.op = "destroyEntity"
      /\ Live(last'.id)
      /\ ~fault')
     => LET id == last'.id
            g == findGroup(This, entities[id])
            aliveIndex == getEndIndex(entityGroups[g])
        IN /\ noOfEntities' = noOfEntities - 1
           /\ entityGroups'[g].noOfEntities = entityGroups[g].noOfEntities - 1
           /\ \A K \in Comps :
                componentAvailabilityBitsets[K] \ componentAvailabilityBitsets'[K]
                   = IF K \in entities[id] THEN {componentSparseSets[K][id]} ELSE {}
           /\ \A e \in EntityID \ {id, aliveIndex} :
                /\ entities'[e] = entities[e]
                /\ \A K \in entities[e] :
                     componentSparseSets'[K][e] = componentSparseSets[K][e]
           /\ id # aliveIndex =>
                /\ entities'[id] = entities[aliveIndex]
                /\ \A K \in entities[aliveIndex] :
                     componentSparseSets'[K][id] = componentSparseSets[K][aliveIndex]]_vars

\* C10: a successful createEntity<S> on a well-formed table raises
\* noOfEntities by one, returns an index whose compMask is then S, and
\* every entity live before the call is still at some index with its
\* compMask and its dense slots.
C10_CreatePreservesEntities ==
  [][(/\ WellFormed
      /\ noOfEntities # InvalidID
      /\ last'.op = "createEntity"
      /\ ~fault' /\ ~undefined')
     => LET ret == last'.ret
        IN /\ noOfEntities' = noOfEntities + 1
           /\ entities'[ret] = last'.mask
           /\ \A e \in EntityID :
                Live(e) =>
                  \E f \in EntityID \ {ret} :
                     /\ entities'[f] = entities[e]
                     /\ \A K \in entities[e] :
                          componentSparseSets'[K][f] = componentSparseSets[K][e]]_vars

TableFull == \A e \in EntityID : Live(e)

\* C11: createEntity called when every slot of the table holds a live
\* entity returns the invalid id EntityID(-1) and leaves noOfEntities, every
\* compMask, every sparse-set entry, every availability bit and the group
\* list unchanged.
C11_CreateAtCapacityFails ==
  [][(/\ Running
      /\ TableFull
      /\ last'.op = "createEntity")
     => (/\ ~fault'
         /\ last'.ret = InvalidID
         /\ noOfEntities' = noOfEntities
         /\ entities' = entities
         /\ componentSparseSets' = componentSparseSets
         /\ componentAvailabilityBitsets' = componentAvailabilityBitsets
         /\ entityGroups' = entityGroups)]_vars

\* What an entity is apart from its index: its compMask and, for each kind
\* it holds, its dense slot.
Descriptor(ents, sparse, e) ==
  [compMask |-> ents[e], slots |-> [K \in ents[e] |-> sparse[K][e]]]
Population(ents, sparse, d) ==
  Cardinality({e \in EntityID : ents[e] # {} /\ Descriptor(ents, sparse, e) = d})

\* C12: performFullRefactor, called on a table with sound sparse sets,
\* leaves noOfEntities unchanged and the multiset of (compMask, dense slot
\* per held kind) over the live entities as it was before the call.
C12_RefactorPreservesEntities ==
  [][(/\ Running
      /\ SparseSetsSound
      /\ last'.op = "performFullRefactor"
      /\ ~fault')
     => (/\ noOfEntities' = noOfEntities
         /\ \A e \in EntityID :
              /\ Live(e) =>
                   LET d == Descriptor(entities, componentSparseSets, e)
                   IN Population(entities', componentSparseSets', d)
                        = Population(entities, componentSparseSets, d)
              /\ entities'[e] # {} =>
                   LET d == Descriptor(entities', componentSparseSets', e)
                   IN Population(entities', componentSparseSets', d)
                        = Population(entities, componentSparseSets, d))]_vars

\* C13: after performFullRefactor the group sizes are non-increasing in
\* startIndex order: of two groups the one with the lower startIndex has at
\* least as many entities.
C13_LargerGroupsFirst ==
  (Running /\ last.op = "performFullRefactor") =>
    \A g, h \in GroupIds :
       entityGroups[g].startIndex < entityGroups[h].startIndex
          => entityGroups[g].noOfEntities >= entityGroups[h].noOfEntities

\* C13 witness: a refactor has moved entities and left a larger group below
\* a smaller one.
C13_Witness ==
  /\ Running
  /\ last.op = "performFullRefactor"
  /\ last.moved
  /\ \E g, h \in GroupIds :
        /\ entityGroups[g].startIndex < entityGroups[h].startIndex
        /\ entityGroups[g].noOfEntities > entityGroups[h].noOfEntities

\* Every live entity of ents lies in the range of a group of groups whose
\* compMask is the entity's.
SignaturesMatchGroups(ents, groups) ==
  \A e \in EntityID :
     ents[e] # {} =>
       \E g \in 1 .. Len(groups) :
          e \in GroupRange(groups[g]) /\ groups[g].compMask = ents[e]

\* C14: after assignComp<K>(e) or unassignComp<K>(e) on a live entity e
\* that sits inside a group of a well-formed table, every live entity's
\* compMask (e's new one included) is the compMask of the group whose range
\* contains it.
C14_AttachDetachKeepGroups ==
  [][(/\ WellFormed
      /\ last'.op \in {"assignComp", "unassignComp"}
      /\ \E g \in GroupIds : last'.id \in GroupRange(entityGroups[g])
      /\ ~fault')
     => SignaturesMatchGroups(entities', entityGroups')]_vars

\* C15: destroyEntity(id) on an index whose compMask is already 0 returns
\* with noOfEntities, every compMask, every sparse-set entry, every
\* availability bit and the groups unchanged.
C15_DestroyDeadIsNoOp ==
  [][(/\ Running
      /\ last'.op = "destroyEntity"
      /\ ~Live(last'.id))
     => (/\ ~fault'
         /\ noOfEntities' = noOfEntities
         /\ entities' = entities
         /\ componentSparseSets' = componentSparseSets
         /\ componentAvailabilityBitsets' = componentAvailabilityBitsets
         /\ entityGroups' = entityGroups)]_vars

\* C15 witness: destroyEntity has been called on a dead index of a table
\* that holds groups and live entities.
C15_Witness ==
  /\ Running
  /\ last.op = "destroyEntity"
  /\ ~last.wasLive
  /\ entityGroups # <<>>
  /\ \E e \in EntityID : Live(e)

\* C16: after initComponents<K0, ..., Kn-1>() on an engine instance the id
\* of each Ki is its position i in the list, which is the index of Ki's
\* pool, sparse set and availability bitset in that instance; for every
\* instance of the process, whatever kinds and order the others registered.
C16_CompIDIsPoolIndex ==
  \A n \in 1 .. Len(engines) :
     \A i \in 1 .. Len(engines[n]) : compIDs[engines[n][i]] = i - 1

\* C17: switchEntities(a, b) with a # b exchanges the compMasks stored at
\* a and b and, for every registered kind, the sparse-set entries of a and
\* b (so getEntitysComponent at a yields afterwards what it yielded at b
\* before, and the reverse); with a = b nothing changes.
C17_SwitchExchangesEntities ==
  [][(Running /\ last'.op = "switchEntities")
     => LET a == last'.a
            b == last'.b
        IN IF a = b
           THEN /\ entities' = entities
                /\ componentSparseSets' = componentSparseSets
                /\ componentPools' = componentPools
           ELSE /\ entities'[a] = entities[b]
                /\ entities'[b] = entities[a]
                /\ \A K \in Comps :
                     /\ componentSparseSets'[K][a] = componentSparseSets[K][b]
                     /\ componentSparseSets'[K][b] = componentSparseSets[K][a]]_vars

\* C18: transferEntity(from, to) with from # to leaves the compMask of to
\* equal to the compMask from had, sets the compMask of from to 0 and, for
\* every kind from held, sets the sparse-set entry of to to the entry from
\* had.
C18_TransferMovesEntity ==
  [][(Running /\ last'.op = "transferEntity" /\ last'.from # last'.to)
     => LET from == last'.from
            to == last'.to
        IN /\ entities'[to] = entities[from]
           /\ entities'[from] = {}
           /\ \A K \in entities[from] :
                componentSparseSets'[K][to] = componentSparseSets[K][from]]_vars

\* The entries of sorting group k that the placement loops have not placed
\* yet: all of a later group, those from j on of the group being placed.
Pending(k) ==
  IF k > placing.i THEN 1 .. Len(sortingGroups[k].indices)
  ELSE IF k = placing.i THEN placing.j .. Len(sortingGroups[k].indices)
  ELSE {}
PendingEntries ==
  {kw \in (1 .. Len(sortingGroups)) \X (1 .. MaxEntities) : kw[2] \in Pending(kw[1])}

C20_EvictionWritesDeadSlots ==
  (Running /\ last.op = "createEntity" /\ last.inserted) => ~last.overwrote

\* C20 witness: a createEntity has returned after an eviction of two
\* transfers (the evicted entity's way was itself blocked).
C20_Witness ==
  /\ Running
  /\ last.op = "createEntity"
  /\ last.inserted
  /\ last.ret # InvalidID
  /\ last.transfers >= 2

\* C21: every createEntity call terminates: the eviction
\* moveEntityToEndOfGroup never recurses on a slot it is already evicting.
C21_CreateEntityTerminates ==
  last.op = "createEntity" => ~last.endless

\* C22: a createEntity call that finds no group of the requested signature
\* appends a group of count 1 whose startIndex is the previous last group's
\* startIndex plus its count (0 when there was no group), and returns that
\* startIndex as the index of the new entity.
C22_NewGroupStartsBehindLastGroup ==
  [][ ( /\ last'.op = "createEntity"
        /\ ~last'.inserted
        /\ noOfEntities # InvalidID
        /\ ~fault' /\ ~undefined' )
      => LET created == entityGroups'[Len(entityGroups')]
             behind == IF entityGroups = <<>> THEN 0
                       ELSE getNextIndex(entityGroups[Len(entityGroups)])
         IN /\ Len(entityGroups') = Len(entityGroups) + 1
            /\ created.noOfEntities = 1
            /\ created.compMask = last'.mask
            /\ created.startIndex = behind
            /\ last'.ret = behind
            /\ entities'[behind] = last'.mask ]_vars

\* C23: in every state of the grouped configuration, for every requested
\* mask S, the sequence getEntitiesWithComponents(S) returns is strictly
\* ascending and holds each live entity whose compMask includes S exactly
\* once.
C23_QueryAscendingWithoutRepeats ==
  GroupsBuilt =>
    \A S \in CompMask :
       LET found == getEntitiesWithComponents(This, S)
       IN /\ \A i, j \in DOMAIN found : i < j => found[i] < found[j]
          /\ \A e \in EntityID :
               (Live(e) /\ entityHasComponents(This, e, S))
                  => Cardinality({i \in DOMAIN found : found[i] = e}) = 1

\* C24: assignComp<K>(e) called while some availability bit of K is clear
\* sets the lowest clear bit of K and no other bit of any kind, and writes
\* that slot to K's sparse-set entry of e and to no other sparse-set entry.
C24_AttachTakesLowestClearSlot ==
  [][ ( /\ last'.op = "assignComp"
        /\ ~fault'
        /\ EntityID \ componentAvailabilityBitsets[last'.comp] # {} )
      => LET K == last'.comp
             e == last'.id
             slot == Min(EntityID \ componentAvailabilityBitsets[K])
         IN /\ componentAvailabilityBitsets' =
                  [componentAvailabilityBitsets EXCEPT ![K] = @ \cup {slot}]
            /\ componentSparseSets' =
                  [componentSparseSets EXCEPT ![K][e] = slot] ]_vars

\* C24 witness: assignComp has filled a hole, a dense slot below one that
\* is in use, and the slot is not the entity's index.
C24_Witness ==
  /\ Running
  /\ last.op = "assignComp"
  /\ componentSparseSets[last.comp][last.id] # last.id
  /\ componentSparseSets[last.comp][last.id]
        \in componentAvailabilityBitsets[last.comp]
  /\ \E x \in componentAvailabilityBitsets[last.comp] :
        x > componentSparseSets[last.comp][last.id]

\* C25: unassignComp<K>(e) on an entity holding K clears K's bit of e's
\* compMask and the availability bit of the dense slot e's sparse-set entry
\* names, and changes no sparse-set entry, no other compMask and no other
\* availability bit.
C25_DetachFreesDenseSlot ==
  [][ ( /\ last'.op = "unassignComp"
        /\ last'.comp \in entities[last'.id]
        /\ ~fault' )
      => LET K == last'.comp
             e == last'.id
         IN /\ entities' = [entities EXCEPT ![e] = @ \ {K}]
            /\ componentAvailabilityBitsets' =
                  [componentAvailabilityBitsets EXCEPT
                     ![K] = @ \ {componentSparseSets[K][e]}]
            /\ componentSparseSets' = componentSparseSets ]_vars

\* The first index, scanning from 0, at which the table ents holds an entity
\* of this signature.
FirstMet(ents, mask) == Min({i \in EntityID : ents[i] = mask})

\* C26: performFullRefactor lays groups of equal member count out in the
\* order in which their signatures are first met when the table it was
\* called on is scanned from index 0.
C26_TiesKeepDiscoveryOrder ==
  [][ ( /\ last'.op = "performFullRefactor"
        /\ ~fault' )
      => \A g, h \in 1 .. Len(entityGroups') :
            ( /\ g < h
              /\ entityGroups'[g].noOfEntities = entityGroups'[h].noOfEntities )
            => FirstMet(entities, entityGroups'[g].compMask)
                 < FirstMet(entities, entityGroups'[h].compMask) ]_vars

\* Every set availability bit is the dense slot of an entity holding the
\* kind.
NoLeakedSlot ==
  \A K \in Comps : \A x \in componentAvailabilityBitsets[K] :
     \E e \in Holders(K) : componentSparseSets[K][e] = x

\* C27: in the compaction-only configuration, destroyEntity(id) of a live
\* entity, called on a sound table (live entities compacted, sparse sets
\* sound, no leaked slot) whose last live entity has another signature
\* than id's, clears the availability bits of the dense slots entity id
\* held and no other bit, and leaves at index id the last entity's
\* signature with the last entity's dense slots.
C27_CompactDestroyFreesDeadSlots ==
  [][ ( /\ last'.op = "destroyEntity"
        /\ Live(last'.id)
        /\ Compacted /\ SparseSetsSound /\ NoLeakedSlot
        /\ entities[noOfEntities - 1] # entities[last'.id]
        /\ ~fault' )
      => LET id == last'.id
             end == noOfEntities - 1
         IN /\ \A K \in Comps :
                 componentAvailabilityBitsets'[K] =
                   componentAvailabilityBitsets[K] \
                     (IF K \in entities[id]
                      THEN {componentSparseSets[K][id]} ELSE {})
            /\ entities'[id] = entities[end]
            /\ \A K \in entities[end] :
                 componentSparseSets'[K][id] = componentSparseSets[K][end] ]_vars

\* C28: in the compaction-only configuration, after any sequence of
\* createEntity (any kind list, the empty one included), destroyEntity,
\* assignComp and unassignComp calls, noOfEntities is the number of entity
\* slots whose compMask is not 0.
C28_CountIsNumberOfLiveSlots ==
  Running => noOfEntities = Cardinality({e \in EntityID : Live(e)})

\* C29: no init_CreateEntity call makes noOfEntities smaller (it does not
\* wrap around the EntityID width), and the index a call returns is
\* neither the index of an entity that was live when it was called nor the
\* invalid id EntityID(-1).
C29_StartUpCreateNeverWraps ==
  [][ last'.op = "init_CreateEntity"
      => /\ noOfEntities' >= noOfEntities
         /\ entities[last'.ret] = {}
         /\ last'.ret # InvalidID ]_vars

\* C30: no createEntity or destroyEntity call of the grouped configuration
\* evaluates getEndIndex() on a group whose noOfEntities is 0 (where
\* startIndex + noOfEntities - 1 is below startIndex, and wraps around the
\* EntityID width when startIndex is 0).
C30_EndIndexOnlyOfNonEmptyGroups ==
  (last.op \in {"createEntity", "destroyEntity"} /\ ~fault) => ~last.emptyEnd
====
